---------------------------- MODULE Spec2Model ----------------------------
(***************************************************************************)
(* mc-discord-auth: the account_links table (LinksTable), the              *)
(* pending_authorisations table (AuthCodes) and the /isValidPlayer         *)
(* request pipeline (WebServer).                                           *)
(*                                                                         *)
(* A table is the set of its rows.  Every method of LinksTable and         *)
(* AuthCodes is declared async but contains no await: its statements run   *)
(* on better-sqlite3's synchronous API, so one call is one atomic step,    *)
(* and concurrency exists only between calls (at a caller's await).        *)
(***************************************************************************)
EXTENDS Naturals, FiniteSets, Sequences, TLC

(***************************************************************************)
(* Bounds: how many Discord ids, Minecraft ids and auth codes exist.       *)
(***************************************************************************)
NumDiscordIds == 2

NumMcIds == 2

NumCodes == 2

DiscordNames == <<"d1", "d2", "d3", "d4">>

McNames == <<"m1", "m2", "m3", "m4">>

CodeNames == <<"c1", "c2", "c3", "c4">>

DiscordIds == {DiscordNames[i] : i \in 1..NumDiscordIds}

McIds == {McNames[i] : i \in 1..NumMcIds}

Codes == {CodeNames[i] : i \in 1..NumCodes}

\* JavaScript's null / undefined.
null == "null"

\* JavaScript truthiness of a string-or-null value: `if (x)`.
Truthy(x) == x # null /\ x # ""

VARIABLES
  links,      \* account_links: set of rows [discord, minecraft]
  pending,    \* pending_authorisations: set of rows [mc_id, auth_code]
  last,       \* the most recent store call and what it returned or threw
  rd,         \* the redemptions in flight, one record per redeemer
  spent,      \* codes whose redemption deleted their pending row, not issued since
  server,     \* the WebServer: whether start() has run, and what it loaded
  req         \* the /isValidPlayer request in flight and its response

vars == <<links, pending, last, rd, spent, server, req>>

(***************************************************************************)
(* LinksTable                                                              *)
(***************************************************************************)
LinkRow(d, m) == [discord |-> d, minecraft |-> m]

\* SELECT * FROM account_links WHERE discord=? OR minecraft=?
SelectLinked(t, d, m) == {r \in t : r.discord = d \/ r.minecraft = m}

\* INSERT INTO account_links (discord, minecraft) VALUES (?,?) under the schema
\* `minecraft text UNIQUE NOT NULL, discord text PRIMARY KEY NOT NULL`:
\* a row that repeats either column is refused and the table is left as it was.
InsertLink(t, d, m) ==
  IF \E r \in t : r.discord = d \/ r.minecraft = m
    THEN [err |-> "SqliteError", table |-> t]
    ELSE [err |-> "none", table |-> t \cup {LinkRow(d, m)}]

\* getMcID: the row's minecraft column, or NoMcAccError.
getMcID(t, d) ==
  LET rows == {r \in t : r.discord = d}
      uuid == IF rows = {} THEN null ELSE (CHOOSE r \in rows : TRUE).minecraft
  IN  IF Truthy(uuid) THEN [err |-> "none", value |-> uuid]
                      ELSE [err |-> "NoMcAccError", value |-> null]

\* A lookup without its WHERE clause: the first row of the table answers.
getDiscordID_anyRow(t, m) ==
  IF t = {} THEN null ELSE (CHOOSE r \in t : TRUE).discord

\* A lookup that compares the wrong column: WHERE discord=?.
getDiscordID_wrongColumn(t, m) ==
  LET rows == {r \in t : r.discord = m}
      discordID == IF rows = {} THEN null ELSE (CHOOSE r \in rows : TRUE).discord
  IN  IF Truthy(discordID) THEN discordID ELSE null

\* getDiscordID: the row's discord column, or null.
getDiscordID(t, m) ==
  LET rows == {r \in t : r.minecraft = m}
      discordID == IF rows = {} THEN null ELSE (CHOOSE r \in rows : TRUE).discord
  IN  IF Truthy(discordID) THEN discordID ELSE null

\* A side that tests the discord column before testing both.
LinkSide_discordFirst(row) ==
  IF Truthy(row.discord) THEN "discord"
  ELSE IF Truthy(row.discord) /\ Truthy(row.minecraft) THEN "both"
  ELSE "minecraft"

\* The side link reports for the row its SELECT returned: it tests the row's
\* columns for truthiness, not against the arguments.
LinkSide(row) ==
  IF Truthy(row.discord) /\ Truthy(row.minecraft) THEN "both"
  ELSE IF Truthy(row.discord) THEN "discord"
  ELSE "minecraft"

\* A link that inserts without looking for a colliding row and without the
\* schema's uniqueness.
link_blindInsert(t, d, m) ==
  [err |-> "none", side |-> "none", table |-> t \cup {LinkRow(d, m)}]

\* A link that looks for the Discord id only, on a table whose minecraft
\* column is not UNIQUE.
link_discordOnly(t, d, m) ==
  IF \E r \in t : r.discord = d
    THEN [err |-> "AlreadyLinkedError", side |-> "discord", table |-> t]
    ELSE [err |-> "none", side |-> "none", table |-> t \cup {LinkRow(d, m)}]

\* link: throws AlreadyLinkedError when a row holds either id, else inserts.
link(t, d, m) ==
  LET alreadyLinked == SelectLinked(t, d, m)
  IN  IF alreadyLinked # {}
        THEN [err |-> "AlreadyLinkedError",
              side |-> LinkSide(CHOOSE r \in alreadyLinked : TRUE),
              table |-> t]
        ELSE LET ins == InsertLink(t, d, m)
             IN  [err |-> ins.err, side |-> "none", table |-> ins.table]

\* The side checkIfLinked reports for the row its SELECT returned.
CheckSide(row, d) ==
  IF row.discord = d THEN "both"
  ELSE IF Truthy(row.minecraft) THEN "minecraft"
  ELSE "discord"

\* checkIfLinked: the outcomes it can have.  Its SELECT can match two rows (one
\* by discord, one by minecraft) and .get() returns whichever the engine visits
\* first, so each matching row is a possible outcome.
checkIfLinked(t, d, m) ==
  LET alreadyLinked == SelectLinked(t, d, m)
  IN  IF alreadyLinked = {}
        THEN {[err |-> "none", side |-> "none"]}
        ELSE {[err |-> "AlreadyLinkedError", side |-> CheckSide(r, d)] :
                r \in alreadyLinked}

\* unlinkDiscordAcc: DELETE ... WHERE discord=?; true iff a row was deleted.
unlinkDiscordAcc(t, d) ==
  LET gone == {r \in t : r.discord = d}
  IN  [value |-> Cardinality(gone) > 0, table |-> t \ gone]

\* A delete without its WHERE clause.
unlinkMcAcc_deleteAll(t, m) ==
  [value |-> Cardinality(t) > 0, table |-> {}]

\* unlinkMcAcc: DELETE ... WHERE minecraft=?; true iff a row was deleted.
unlinkMcAcc(t, m) ==
  LET gone == {r \in t : r.minecraft = m}
  IN  [value |-> Cardinality(gone) > 0, table |-> t \ gone]

(***************************************************************************)
(* AuthCodes                                                               *)
(***************************************************************************)
PendingRow(m, c) == [mc_id |-> m, auth_code |-> c]

NoRow == [mc_id |-> null, auth_code |-> null]

\* uuid().split('-')[0]: the time_low field of a version 1 UUID, which repeats
\* as the clock's low bits wrap, so any code can come out of any call.
generateAuthCodeString == Codes

\* getMinecraftPlayer: SELECT * ... WHERE mc_id=?
getMinecraftPlayer(t, m) ==
  LET rows == {r \in t : r.mc_id = m}
  IN  IF rows = {} THEN NoRow ELSE CHOOSE r \in rows : TRUE

\* A lookup that forgets its WHERE clause: any row answers.
getAuthCode_anyRow(t, c) ==
  IF t = {} THEN NoRow ELSE CHOOSE r \in t : TRUE

\* getAuthCode: SELECT * ... WHERE auth_code=?
getAuthCode(t, c) ==
  LET rows == {r \in t : r.auth_code = c}
  IN  IF rows = {} THEN NoRow ELSE CHOOSE r \in rows : TRUE

\* An upsert that inserts a new row beside the player's old one.
assertAuthCode_noUpsert(t, m, c) ==
  IF \E r \in t : r.auth_code = c
    THEN [err |-> "SqliteError", row |-> NoRow, table |-> t]
    ELSE [err |-> "none", row |-> PendingRow(m, c),
          table |-> t \cup {PendingRow(m, c)}]

\* An upsert on a table whose auth_code column is not UNIQUE.
assertAuthCode_codeNotUnique(t, m, c) ==
  [err |-> "none", row |-> PendingRow(m, c),
   table |-> {r \in t : r.mc_id # m} \cup {PendingRow(m, c)}]

\* assertAuthCode with the code c that generateAuthCodeString returned:
\* INSERT ... ON CONFLICT(mc_id) DO UPDATE SET auth_code=? WHERE mc_id=?
\* RETURNING *, under `mc_id text UNIQUE NOT NULL, auth_code text UNIQUE NOT
\* NULL`.  Only the mc_id conflict is handled by the upsert: a code held by
\* another player's row makes the statement fail and changes nothing.
assertAuthCode(t, m, c) ==
  IF \E r \in t : r.auth_code = c /\ r.mc_id # m
    THEN [err |-> "SqliteError", row |-> NoRow, table |-> t]
    ELSE [err |-> "none", row |-> PendingRow(m, c),
          table |-> {r \in t : r.mc_id # m} \cup {PendingRow(m, c)}]

(***************************************************************************)
(* Calls on the two stores.  `last` records the call just made: its name,  *)
(* arguments, what it threw, what it returned, `prior`, what the call      *)
(* replaced or removed (the code the player's pending row held when        *)
(* assertAuthCode was called; the other id of the row an unlink deleted),  *)
(* and `tick`, which alternates so that a call repeating the one before it *)
(* is a step.                                                              *)
(***************************************************************************)
Call(op, d, m, c, err, side, value, prior) ==
  [op |-> op, discord |-> d, mc |-> m, code |-> c,
   err |-> err, side |-> side, value |-> value, prior |-> prior,
   tick |-> 1 - last.tick]

NoCall ==
  [op |-> "none", discord |-> null, mc |-> null, code |-> null,
   err |-> "none", side |-> "none", value |-> null, prior |-> null,
   tick |-> 0]

linkCall(d, m) ==
  LET r == link(links, d, m)
  IN  /\ links' = r.table
      /\ last' = Call("link", d, m, null, r.err, r.side, null, null)
      /\ UNCHANGED <<pending, rd, spent, server, req>>

checkIfLinkedCall(d, m) ==
  \E r \in checkIfLinked(links, d, m) :
    /\ last' = Call("checkIfLinked", d, m, null, r.err, r.side, null, null)
    /\ UNCHANGED <<links, pending, rd, spent, server, req>>

unlinkDiscordAccCall(d) ==
  LET r == unlinkDiscordAcc(links, d)
  IN  /\ links' = r.table
      /\ last' = Call("unlinkDiscordAcc", d, null, null, "none", "none",
                      IF r.value THEN "true" ELSE "false",
                      IF links = r.table THEN null
                      ELSE (CHOOSE g \in links \ r.table : TRUE).minecraft)
      /\ UNCHANGED <<pending, rd, spent, server, req>>

unlinkMcAccCall(m) ==
  LET r == unlinkMcAcc(links, m)
  IN  /\ links' = r.table
      /\ last' = Call("unlinkMcAcc", null, m, null, "none", "none",
                      IF r.value THEN "true" ELSE "false",
                      IF links = r.table THEN null
                      ELSE (CHOOSE g \in links \ r.table : TRUE).discord)
      /\ UNCHANGED <<pending, rd, spent, server, req>>

getDiscordIDCall(m) ==
  /\ last' = Call("getDiscordID", null, m, null, "none", "none",
                  getDiscordID(links, m), null)
  /\ UNCHANGED <<links, pending, rd, spent, server, req>>

assertAuthCodeCall(m) ==
  \E c \in generateAuthCodeString :
    LET r == assertAuthCode(pending, m, c)
    IN  /\ pending' = r.table
        /\ last' = Call("assertAuthCode", null, m, c, r.err, "none",
                        r.row.auth_code, getMinecraftPlayer(pending, m).auth_code)
        /\ UNCHANGED <<links, rd, spent, server, req>>

(***************************************************************************)
(* WebServer: the handlers of POST /isValidPlayer.                         *)
(*                                                                         *)
(* A JavaScript value is a record [type, val].  An Authorization header is *)
(* the sequence of its parts between single spaces (what split(' ')        *)
(* returns), and <<>> when the header is absent.                           *)
(***************************************************************************)
Undefined == [type |-> "undefined", val |-> ""]

Null == [type |-> "null", val |-> ""]

Num == [type |-> "number", val |-> "123"]

Str(s) == [type |-> "string", val |-> s]

\* x == undefined
IsNullish(x) == x.type \in {"undefined", "null"}

\* A parsed JSON body, and the absent body.
Body(pid) == [type |-> "object", player_id |-> pid]

NoBody == [type |-> "undefined", player_id |-> Undefined]

\* config.token
Token == "secret"

NoHeader == <<>>

Auths ==
  {NoHeader, <<"">>, <<"Bearer">>, <<Token>>, <<"Bearer", Token>>,
   <<"Bearer", "wrong">>, <<"Bearer", "">>, <<"Bearer", Token, "x">>,
   <<"", Token>>}

Bodies ==
  {NoBody, Body(Undefined), Body(Null), Body(Num)}
    \cup {Body(Str(m)) : m \in McIds}

\* What a handler did: the response it sent (if any), whether it called
\* next(), whether it threw, and the player_id it attached to the request.
Effect(respond, status, body, next, threw, pid) ==
  [respond |-> respond, status |-> status, body |-> body,
   next |-> next, threw |-> threw, player_id |-> pid]

\* A checkAuth that answers 401 and goes on to next() all the same.
checkAuth_nextAlways(auth) ==
  IF auth = NoHeader \/ auth = <<"">> \/ Len(auth) = 1
    THEN Effect(TRUE, 203, "", FALSE, FALSE, Undefined)
  ELSE IF auth[2] = Token
    THEN Effect(FALSE, 0, "", TRUE, FALSE, Undefined)
  ELSE Effect(TRUE, 401, "", TRUE, FALSE, Undefined)

\* A checkAuth that takes the first part of the header for the token.
checkAuth_firstPart(auth) ==
  IF auth = NoHeader \/ auth = <<"">>
    THEN Effect(TRUE, 203, "", FALSE, FALSE, Undefined)
  ELSE IF Len(auth) = 1
    THEN Effect(TRUE, 203, "", FALSE, FALSE, Undefined)
  ELSE IF auth[1] = Token
    THEN Effect(FALSE, 0, "", TRUE, FALSE, Undefined)
  ELSE Effect(TRUE, 401, "", FALSE, FALSE, Undefined)

\* checkAuth: 203 without a header or without a second part, next() when the
\* second part is the configured token, else 401.
checkAuth(auth) ==
  IF auth = NoHeader \/ auth = <<"">>
    THEN Effect(TRUE, 203, "", FALSE, FALSE, Undefined)
  ELSE IF Len(auth) = 1
    THEN Effect(TRUE, 203, "", FALSE, FALSE, Undefined)
  ELSE IF auth[2] = Token
    THEN Effect(FALSE, 0, "", TRUE, FALSE, Undefined)
  ELSE Effect(TRUE, 401, "", FALSE, FALSE, Undefined)

\* A validateBody without the typeof test: any player_id present is passed on.
validateBody_noTypeCheck(body) ==
  IF IsNullish(body)
    THEN Effect(TRUE, 400, "noBodyError", FALSE, TRUE, Undefined)
  ELSE IF IsNullish(body.player_id)
    THEN Effect(TRUE, 400, "noPlayerID", FALSE, FALSE, Undefined)
  ELSE Effect(FALSE, 0, "", TRUE, FALSE, body.player_id)

\* validateBody.  Without a body it sends 400 noBodyError and, having no
\* return there, goes on to read req.body['player_id'], which throws.
validateBody(body) ==
  IF IsNullish(body)
    THEN Effect(TRUE, 400, "noBodyError", FALSE, TRUE, Undefined)
  ELSE IF IsNullish(body.player_id)
    THEN Effect(TRUE, 400, "noPlayerID", FALSE, FALSE, Undefined)
  ELSE IF body.player_id.type # "string"
    THEN Effect(TRUE, 400, "playerIDType", FALSE, FALSE, Undefined)
  ELSE Effect(FALSE, 0, "", TRUE, FALSE, body.player_id)

\* discord.isTierThree(discordID), the Role Oracle: what a call can come to.
\* It answers true or false for an account, and fails with NoDiscordAccError
\* or with another error; for an absent id it can only fail.
isTierThree(discordID) ==
  IF discordID = null
    THEN {"NoDiscordAccError", "Error"}
    ELSE {"true", "false", "NoDiscordAccError", "Error"}

\* A catch block that grants access when the check could not be made.
isValidPlayerResponse_failOpen(outcome) ==
  IF outcome = "true" THEN [status |-> 200, body |-> "isValid"]
  ELSE IF outcome = "false" THEN [status |-> 200, body |-> "isNotValid"]
  ELSE IF outcome = "NoDiscordAccError" THEN [status |-> 200, body |-> "isNotValid"]
  ELSE [status |-> 500, body |-> "isValid"]

\* isValidPlayer, after the await: the response for what isTierThree came to.
isValidPlayerResponse(outcome) ==
  IF outcome = "true" THEN [status |-> 200, body |-> "isValid"]
  ELSE IF outcome = "false" THEN [status |-> 200, body |-> "isNotValid"]
  ELSE IF outcome = "NoDiscordAccError" THEN [status |-> 200, body |-> "isNotValid"]
  ELSE [status |-> 500, body |-> "isNotValid"]

\* The handlers start() registers, in the order it registers them.
Chain == <<"checkAuth", "json", "validateBody", "isValidPlayer">>

\* responses.isNotValid is one constant; its reason attribute is whatever the
\* responses module gives it.
NotValidReasons == {"none", "no_link", "no_role"}

\* The JSON a body constant stands for.
Content(body) ==
  IF body = "isValid"
    THEN [valid |-> "true", reason |-> "none", errcode |-> "none"]
  ELSE IF body = "isNotValid"
    THEN [valid |-> "false", reason |-> server.notValidReason, errcode |-> "none"]
  ELSE IF body = "noBodyError"
    THEN [valid |-> "none", reason |-> "none", errcode |-> "NO_BODY"]
  ELSE IF body = "noPlayerID"
    THEN [valid |-> "none", reason |-> "none", errcode |-> "NO_PLAYER_ID"]
  ELSE IF body = "playerIDType"
    THEN [valid |-> "none", reason |-> "none", errcode |-> "PLAYER_ID_TYPE"]
  ELSE [valid |-> "none", reason |-> "none", errcode |-> "none"]

\* A response not yet sent: Node's default status, nothing written.
NoResponse == [status |-> 200, body |-> "", ended |-> FALSE, again |-> FALSE]

\* res.status(s); res.send(b) / res.end(): the first one is what the client
\* gets; a later one finds the response ended.
Respond(res, status, body) ==
  IF res.ended THEN [res EXCEPT !.again = TRUE]
  ELSE [status |-> status, body |-> body, ended |-> TRUE, again |-> FALSE]

IdleReq ==
  [pc |-> "idle", stage |-> 1, auth |-> NoHeader, raw |-> NoBody,
   body |-> NoBody, player_id |-> Undefined, discordID |-> null,
   oracle |-> "none", touched |-> FALSE, asked |-> FALSE, threw |-> FALSE,
   res |-> NoResponse]

(***************************************************************************)
(* Initial state: both tables as init() creates them, nothing in flight.   *)
(***************************************************************************)
Redeemers == {"r1", "r2"}

IdleRedeem ==
  [pc |-> "idle", code |-> null, discord |-> null, mc |-> null,
   err |-> "none", side |-> "none", at |-> "none",
   wrote |-> FALSE, deleted |-> FALSE, sawSpent |-> FALSE]

Init ==
  /\ links = {}
  /\ pending = {}
  /\ last = NoCall
  /\ rd = [p \in Redeemers |-> IdleRedeem]
  /\ spent = {}
  /\ server = [listening |-> FALSE, notValidReason |-> "none"]
  /\ req = IdleReq

(***************************************************************************)
(* Spec: calls on LinksTable and AuthCodes, in any order.                  *)
(***************************************************************************)
Next ==
  \/ \E d \in DiscordIds, m \in McIds : linkCall(d, m)
  \/ \E d \in DiscordIds, m \in McIds : checkIfLinkedCall(d, m)
  \/ \E d \in DiscordIds : unlinkDiscordAccCall(d)
  \/ \E m \in McIds : unlinkMcAccCall(m)
  \/ \E m \in McIds : getDiscordIDCall(m)
  \/ \E m \in McIds : assertAuthCodeCall(m)

Spec == Init /\ [][Next]_vars

(***************************************************************************)
(* SpecRedeem: codes are issued and redeemed; nothing is unlinked.         *)
(*                                                                         *)
(* redeem(code, discordId) is the Linking Service's method: look the code  *)
(* up, check the link store for conflicts, create the link, delete the     *)
(* consumed pending row.  Each of the four is one awaited store call, so   *)
(* other redemptions and code requests run between them.                   *)
(***************************************************************************)
Done(r, err, side, at) ==
  [r EXCEPT !.pc = "done", !.err = err, !.side = side, !.at = at]

\* redeem, step 1: getAuthCode(code); InvalidCode when no row holds the code.
redeemLookup(p, c, d) ==
  /\ rd[p].pc = "idle"
  /\ LET row == getAuthCode(pending, c)
         r == [rd[p] EXCEPT !.code = c, !.discord = d,
                            !.sawSpent = (c \in spent)]
     IN  rd' = [rd EXCEPT ![p] =
                  IF row = NoRow
                    THEN Done(r, "InvalidCode", "none", "lookup")
                    ELSE [r EXCEPT !.pc = "check", !.mc = row.mc_id]]
  /\ UNCHANGED <<links, pending, last, spent, server, req>>

\* redeem, step 2: checkIfLinked(discordId, mcId).
redeemCheck(p) ==
  /\ rd[p].pc = "check"
  /\ \E o \in checkIfLinked(links, rd[p].discord, rd[p].mc) :
       rd' = [rd EXCEPT ![p] =
                IF o.err = "none"
                  THEN [rd[p] EXCEPT !.pc = "link"]
                  ELSE Done(rd[p], o.err, o.side, "check")]
  /\ UNCHANGED <<links, pending, last, spent, server, req>>

\* redeem, step 3: link(discordId, mcId).
redeemLink(p) ==
  /\ rd[p].pc = "link"
  /\ LET r == link(links, rd[p].discord, rd[p].mc)
         w == [rd[p] EXCEPT !.wrote = (r.table # links)]
     IN  /\ links' = r.table
         /\ rd' = [rd EXCEPT ![p] =
                     IF r.err = "none"
                       THEN [w EXCEPT !.pc = "delete"]
                       ELSE Done(w, r.err, r.side, "link")]
  /\ UNCHANGED <<pending, last, spent, server, req>>

\* redeem, step 4: delete the pending row that was consumed.
redeemDelete(p) ==
  /\ rd[p].pc = "delete"
  /\ LET row == PendingRow(rd[p].mc, rd[p].code)
     IN  /\ pending' = pending \ {row}
         /\ spent' = IF row \in pending THEN spent \cup {rd[p].code} ELSE spent
         /\ rd' = [rd EXCEPT ![p] =
                     Done([rd[p] EXCEPT !.deleted = (row \in pending)],
                          "none", "none", "none")]
  /\ UNCHANGED <<links, last, server, req>>

\* requestCode(mcId): assertAuthCode(mcId).
requestCode(m) ==
  \E c \in generateAuthCodeString :
    LET r == assertAuthCode(pending, m, c)
    IN  /\ pending' = r.table
        /\ spent' = IF r.err = "none" THEN spent \ {c} ELSE spent
        /\ UNCHANGED <<links, last, rd, server, req>>

RedeemNext ==
  \/ \E p \in Redeemers, c \in Codes, d \in DiscordIds : redeemLookup(p, c, d)
  \/ \E p \in Redeemers : redeemCheck(p)
  \/ \E p \in Redeemers : redeemLink(p)
  \/ \E p \in Redeemers : redeemDelete(p)
  \/ \E m \in McIds : requestCode(m)

SpecRedeem == Init /\ [][RedeemNext]_vars

(***************************************************************************)
(* SpecWeb: the server is started and answers requests one after another   *)
(* while accounts are linked and unlinked.                                 *)
(***************************************************************************)

\* start(): listen, and register the handlers (with the constants the
\* responses module exports).
start ==
  /\ ~server.listening
  /\ \E r \in NotValidReasons :
       server' = [listening |-> TRUE, notValidReason |-> r]
  /\ UNCHANGED <<links, pending, last, rd, spent, req>>

\* A request arrives; the one before it has been answered.
receive(auth, raw) ==
  /\ server.listening
  /\ req.pc \in {"idle", "done"}
  /\ req' = [IdleReq EXCEPT !.pc = "run", !.auth = auth, !.raw = raw]
  /\ UNCHANGED <<links, pending, last, rd, spent, server>>

\* The request after a handler's effect: its response, and the next handler
\* when next() was called.
After(r, e) ==
  [r EXCEPT
     !.res = IF e.respond THEN Respond(r.res, e.status, e.body) ELSE r.res,
     !.threw = e.threw,
     !.player_id = IF e.next /\ e.player_id # Undefined
                     THEN e.player_id ELSE r.player_id,
     !.stage = IF e.next THEN r.stage + 1 ELSE r.stage,
     !.pc = IF e.next /\ r.stage < Len(Chain) THEN "run" ELSE "done"]

Running(h) == req.pc = "run" /\ Chain[req.stage] = h

checkAuthStep ==
  /\ Running("checkAuth")
  /\ req' = After(req, checkAuth(req.auth))
  /\ UNCHANGED <<links, pending, last, rd, spent, server>>

\* express.json(): req.body becomes the parsed payload.
jsonStep ==
  /\ Running("json")
  /\ req' = After([req EXCEPT !.body = req.raw],
                  Effect(FALSE, 0, "", TRUE, FALSE, Undefined))
  /\ UNCHANGED <<links, pending, last, rd, spent, server>>

validateBodyStep ==
  /\ Running("validateBody")
  /\ req' = After(req, validateBody(req.body))
  /\ UNCHANGED <<links, pending, last, rd, spent, server>>

\* isValidPlayer up to its await: the lookup in the link store, whose result
\* goes to isTierThree untested.
isValidPlayerStep ==
  /\ Running("isValidPlayer")
  /\ req' = [req EXCEPT !.discordID = getDiscordID(links, req.player_id.val),
                        !.touched = TRUE,
                        !.asked = TRUE,
                        !.pc = "await"]
  /\ UNCHANGED <<links, pending, last, rd, spent, server>>

\* isValidPlayer from its await on: isTierThree returns or throws, and the
\* response is sent.
isTierThreeSettles ==
  /\ req.pc = "await"
  /\ \E outcome \in isTierThree(req.discordID) :
       LET r == isValidPlayerResponse(outcome)
       IN  req' = [req EXCEPT !.oracle = outcome,
                              !.res = Respond(req.res, r.status, r.body),
                              !.pc = "done"]
  /\ UNCHANGED <<links, pending, last, rd, spent, server>>

\* Accounts are linked and unlinked while requests are served.
linkDuring(d, m) ==
  /\ server.listening
  /\ links' = link(links, d, m).table
  /\ UNCHANGED <<pending, last, rd, spent, server, req>>

unlinkDuring(m) ==
  /\ server.listening
  /\ links' = unlinkMcAcc(links, m).table
  /\ UNCHANGED <<pending, last, rd, spent, server, req>>

WebNext ==
  \/ start
  \/ \E auth \in Auths, raw \in Bodies : receive(auth, raw)
  \/ checkAuthStep
  \/ jsonStep
  \/ validateBodyStep
  \/ isValidPlayerStep
  \/ isTierThreeSettles
  \/ \E d \in DiscordIds, m \in McIds : linkDuring(d, m)
  \/ \E m \in McIds : unlinkDuring(m)

SpecWeb == Init /\ [][WebNext]_vars

(***************************************************************************)
(* Properties of the two stores, checked under Spec.                       *)
(***************************************************************************)

\* C1: in every reachable state account_links is one-to-one: no two rows share
\* a Discord id and no two rows share a Minecraft id.
C1_LinksOneToOne ==
  \A r1 \in links, r2 \in links :
    (r1.discord = r2.discord \/ r1.minecraft = r2.minecraft) => r1 = r2

\* C1 witness: a link call has just failed against a table holding two links.
C1_Witness ==
  /\ last.op = "link"
  /\ last.err = "AlreadyLinkedError"
  /\ Cardinality(links) = 2

\* C6 as claimed: link(discordId, mcId) with discordId linked to a different
\* mcId (and mcId itself free) throws AlreadyLinkedError with side "discord"
\* and leaves the table as it was.
C6_DiscordSideReported ==
  [][(/\ last'.op = "link"
      /\ \E r \in links : r.discord = last'.discord /\ r.minecraft # last'.mc
      /\ \A r \in links : r.minecraft # last'.mc)
     => (/\ last'.err = "AlreadyLinkedError"
         /\ last'.side = "discord"
         /\ links' = links)]_vars

\* Both lookups resolve the pair (d, m) in table t.
Resolves(t, d, m) ==
  /\ getDiscordID(t, m) = d
  /\ getMcID(t, d) = [err |-> "none", value |-> m]

\* C7: right after link(d, m) succeeds getDiscordID(m) = d and getMcID(d) = m,
\* and a pair that resolves keeps resolving across every call that is not an
\* unlink of d or of m.
C7_LinkThenResolve ==
  [][/\ (last'.op = "link" /\ last'.err = "none")
          => Resolves(links', last'.discord, last'.mc)
     /\ \A d \in DiscordIds, m \in McIds :
          (/\ Resolves(links, d, m)
           /\ ~(last'.op = "unlinkDiscordAcc" /\ last'.discord = d)
           /\ ~(last'.op = "unlinkMcAcc" /\ last'.mc = m))
          => Resolves(links', d, m)]_vars

\* C7 witness: a link call has just succeeded beside an older link, and its
\* pair resolves.
C7_Witness ==
  /\ last.op = "link"
  /\ last.err = "none"
  /\ Cardinality(links) = 2
  /\ Resolves(links, last.discord, last.mc)

\* C8: when link(d, m) has just succeeded, calling link(d, m) again throws
\* AlreadyLinkedError with side "both", and exactly one row holds d or m: the
\* row (d, m).
C8_SecondLinkFailsBoth ==
  [][(/\ last.op = "link" /\ last.err = "none"
      /\ last'.op = "link"
      /\ last'.discord = last.discord /\ last'.mc = last.mc)
     => (/\ last'.err = "AlreadyLinkedError"
         /\ last'.side = "both"
         /\ SelectLinked(links', last.discord, last.mc)
              = {LinkRow(last.discord, last.mc)})]_vars

\* C8 witness: link has just thrown "both" for a pair that is a row of the table.
C8_Witness ==
  /\ last.op = "link"
  /\ last.err = "AlreadyLinkedError"
  /\ last.side = "both"
  /\ LinkRow(last.discord, last.mc) \in links

\* C9 as claimed: whenever assertAuthCode has returned for a Minecraft id and
\* is called for that id again (generating another code), the table then holds
\* exactly one row for the id, with the code the second call generated, and
\* the first call's code no longer resolves; and no state has two pending rows
\* for one Minecraft id.
C9_SecondCallAlwaysWins ==
  /\ [][(/\ last.op = "assertAuthCode" /\ last.err = "none"
         /\ last'.op = "assertAuthCode"
         /\ last'.mc = last.mc
         /\ last'.code # last.code)
        => (/\ {r \in pending' : r.mc_id = last'.mc}
                 = {PendingRow(last'.mc, last'.code)}
            /\ getAuthCode(pending', last.code) = NoRow)]_vars
  /\ [](\A r1 \in pending, r2 \in pending : r1.mc_id = r2.mc_id => r1 = r2)

\* C9 amended: whenever a call assertAuthCode(m) returns (the code it generated
\* is not held by another Minecraft id), the table then holds exactly one row
\* for m, with the generated code, and the code m's row held before, if it
\* differs, no longer resolves; a call that throws changes nothing; and no
\* state has two pending rows for one Minecraft id.
C9_RefreshReplacesCode ==
  /\ [][last'.op = "assertAuthCode" =>
          LET old == getMinecraftPlayer(pending, last'.mc).auth_code
          IN  IF last'.err = "none"
                THEN /\ {r \in pending' : r.mc_id = last'.mc}
                          = {PendingRow(last'.mc, last'.code)}
                     /\ last'.value = last'.code
                     /\ (old # null /\ old # last'.code)
                          => getAuthCode(pending', old) = NoRow
                ELSE /\ pending' = pending
                     /\ \E r \in pending :
                          r.auth_code = last'.code /\ r.mc_id # last'.mc]_vars
  /\ [](\A r1 \in pending, r2 \in pending : r1.mc_id = r2.mc_id => r1 = r2)

\* C9 witness: assertAuthCode has just replaced an older, different code of the
\* same Minecraft id while another id holds a pending row too.
C9_Witness ==
  /\ last.op = "assertAuthCode"
  /\ last.err = "none"
  /\ last.prior # null
  /\ last.prior # last.code
  /\ pending = {PendingRow(last.mc, last.code)}
                 \cup {r \in pending : r.mc_id # last.mc}
  /\ getAuthCode(pending, last.prior) = NoRow

C15_UnlinkFrame ==
  [][/\ last'.op = "unlinkDiscordAcc" =>
          LET gone == {r \in links : r.discord = last'.discord}
          IN  /\ (last'.value = "true") <=> (gone # {})
              /\ links' = links \ gone
              /\ getMcID(links', last'.discord).err = "NoMcAccError"
              /\ \A g \in gone : getDiscordID(links', g.minecraft) = null
     /\ last'.op = "unlinkMcAcc" =>
          LET gone == {r \in links : r.minecraft = last'.mc}
          IN  /\ (last'.value = "true") <=> (gone # {})
              /\ links' = links \ gone
              /\ getDiscordID(links', last'.mc) = null
              /\ \A g \in gone : getMcID(links', g.discord).err = "NoMcAccError"
     /\ (/\ last.op \in {"unlinkDiscordAcc", "unlinkMcAcc"}
         /\ last.value = "true"
         /\ last'.op = "link"
         /\ last'.discord = (IF last.op = "unlinkDiscordAcc"
                               THEN last.discord ELSE last.prior)
         /\ last'.mc = (IF last.op = "unlinkMcAcc" THEN last.mc ELSE last.prior))
        => (/\ last'.err = "none"
            /\ links' = links \cup {LinkRow(last'.discord, last'.mc)})]_vars

\* C15 witness: unlinkDiscordAcc has just returned true, its row is gone and
\* the other link is still in the table.
C15_Witness ==
  /\ last.op = "unlinkDiscordAcc"
  /\ last.value = "true"
  /\ last.prior \in McIds
  /\ Cardinality(links) = 1
  /\ \A r \in links : r.discord # last.discord /\ r.minecraft # last.prior

\* C16 as claimed: when link(discordId, mcId) fails against one colliding row,
\* the side is "both" only when the row is the requested pair, "discord" when
\* only its discord column equals discordId, "minecraft" when only its
\* minecraft column equals mcId.
C16_SideByComparison ==
  [][(/\ last'.op = "link"
      /\ last'.err = "AlreadyLinkedError"
      /\ Cardinality(SelectLinked(links, last'.discord, last'.mc)) = 1)
     => LET row == CHOOSE r \in SelectLinked(links, last'.discord, last'.mc) : TRUE
        IN  last'.side =
              (IF row.discord = last'.discord /\ row.minecraft = last'.mc
                 THEN "both"
               ELSE IF row.discord = last'.discord THEN "discord"
               ELSE "minecraft")]_vars

\* C17 as claimed: checkIfLinked(discordId, mcId) throws AlreadyLinkedError
\* exactly when link(discordId, mcId) would in the same table, with the same
\* side, and leaves the table as it was.
C17_CheckAgreesWithLink ==
  [][last'.op = "checkIfLinked" =>
       LET l == link(links, last'.discord, last'.mc)
       IN  /\ (last'.err = "AlreadyLinkedError") <=> (l.err = "AlreadyLinkedError")
           /\ last'.side = l.side
           /\ links' = links]_vars

\* C20: no two rows of pending_authorisations hold the same auth_code, so a
\* code is the code of at most one Minecraft id; and an assertAuthCode call
\* whose generated code is held by another Minecraft id throws and leaves
\* every row as it was.
C20_CodesUnique ==
  /\ [](\A r1 \in pending, r2 \in pending :
          r1.auth_code = r2.auth_code => r1 = r2)
  /\ [](\A c \in Codes :
          getAuthCode(pending, c) # NoRow =>
            {r.mc_id : r \in {x \in pending : x.auth_code = c}}
              = {getAuthCode(pending, c).mc_id})
  /\ [][(/\ last'.op = "assertAuthCode"
         /\ \E r \in pending :
              r.auth_code = last'.code /\ r.mc_id # last'.mc)
        => (/\ last'.err = "SqliteError"
            /\ pending' = pending)]_vars

\* C20 witness: assertAuthCode has just thrown because its code is held by
\* the other Minecraft id, and both pending rows are still there.
C20_Witness ==
  /\ last.op = "assertAuthCode"
  /\ last.err = "SqliteError"
  /\ Cardinality(pending) = 2
  /\ \E r \in pending : r.auth_code = last.code /\ r.mc_id # last.mc

(***************************************************************************)
(* Properties of redemption, checked under SpecRedeem.                     *)
(***************************************************************************)

\* Redemption p created its link.
Won(p) == rd[p].pc \in {"delete", "done"} /\ rd[p].err = "none" /\ rd[p].wrote

\* C2: a code whose redemption succeeded and deleted its pending row is not
\* found by getAuthCode until it is issued again, and a redemption that
\* presents such a code ends with InvalidCode, having written nothing; a
\* redemption that ended without error created its link.
C2_CodeSingleUse ==
  /\ \A c \in spent : getAuthCode(pending, c) = NoRow
  /\ \A q \in Redeemers :
       rd[q].sawSpent =>
         /\ rd[q].pc = "done"
         /\ rd[q].err = "InvalidCode"
         /\ ~rd[q].wrote
  /\ \A p \in Redeemers :
       (rd[p].pc = "done" /\ rd[p].err = "none") =>
         /\ rd[p].wrote
         /\ LinkRow(rd[p].discord, rd[p].mc) \in links

\* C2 witness: one redemption succeeded and deleted the pending row, and a
\* second redemption of the same code has ended with InvalidCode.
C2_Witness ==
  \E p \in Redeemers, q \in Redeemers :
    /\ p # q
    /\ rd[p].pc = "done" /\ rd[p].err = "none" /\ rd[p].deleted
    /\ rd[q].code = rd[p].code
    /\ rd[q].sawSpent
    /\ rd[q].err = "InvalidCode"

Authorized(auth) == Len(auth) >= 2 /\ auth[2] = Token

\* The payload is an object whose player_id is a string.
WellFormed(raw) == raw.type = "object" /\ raw.player_id.type = "string"

\* C4: a response says valid=true only when isTierThree, called with the
\* Discord id the link store gave for the player, returned true; when
\* isTierThree fails with anything but NoDiscordAccError the response is 500
\* with valid=false; and no response after a failure says valid=true.
C4_FailClosed ==
  req.pc = "done" =>
    /\ Content(req.res.body).valid = "true" =>
         /\ req.asked
         /\ req.oracle = "true"
         /\ req.discordID # null
         /\ req.res.status = 200
    /\ req.oracle = "Error" =>
         /\ req.res.status = 500
         /\ Content(req.res.body).valid = "false"
    /\ req.oracle \in {"Error", "NoDiscordAccError"} =>
         Content(req.res.body).valid # "true"

\* C4 witness: isTierThree failed for a linked player and the answer was 500
\* with valid=false.
C4_Witness ==
  /\ req.pc = "done"
  /\ req.discordID # null
  /\ req.oracle = "Error"
  /\ req.res.status = 500
  /\ Content(req.res.body).valid = "false"

\* C5: the link store is read and the oracle is called only for a request
\* whose header carries the token and whose body holds a string player_id; a
\* request answered 203, 401 or 400 has touched neither.
C5_StagesInOrder ==
  /\ (req.touched \/ req.asked) => (Authorized(req.auth) /\ WellFormed(req.raw))
  /\ (req.pc = "done" /\ req.res.status \in {203, 401, 400})
       => (~req.touched /\ ~req.asked)
  /\ (req.pc = "done" /\ ~(Authorized(req.auth) /\ WellFormed(req.raw)))
       => req.res.status \in {203, 401, 400}

\* C5 witness: an authorized request with a malformed body was answered 400
\* without any store access or oracle call.
C5_Witness ==
  /\ req.pc = "done"
  /\ Authorized(req.auth)
  /\ ~WellFormed(req.raw)
  /\ req.res.status = 400
  /\ ~req.touched
  /\ ~req.asked

\* C10 as claimed: a request with the token and a string player_id for which
\* the link store holds no row is answered 200 {valid: false, reason:
\* "no_link"}.
C10_UnlinkedGetsNoLink ==
  (/\ req.pc = "done"
   /\ Authorized(req.auth)
   /\ WellFormed(req.raw)
   /\ req.touched
   /\ req.discordID = null)
  => (/\ req.res.status = 200
      /\ Content(req.res.body).valid = "false"
      /\ Content(req.res.body).reason = "no_link")

\* C11 as claimed: a request with the token for a linked player whose
\* isTierThree call returned false is answered 200 {valid: false, reason:
\* "no_role"}, and that reason differs from the one an unlinked player gets.
C11_NoRoleReason ==
  (/\ req.pc = "done"
   /\ Authorized(req.auth)
   /\ WellFormed(req.raw)
   /\ req.discordID # null
   /\ req.oracle = "false")
  => (/\ req.res.status = 200
      /\ Content(req.res.body).valid = "false"
      /\ Content(req.res.body).reason = "no_role"
      /\ \A o \in isTierThree(null) :
           Content(isValidPlayerResponse(o).body).reason
             # Content(req.res.body).reason)

\* C12: a request checkAuth has answered got 203 with an empty body when its
\* header is absent, empty or has one part, and 401 with an empty body when
\* the header's second part is not the token; a request is past checkAuth
\* exactly when the second part of its header is the token.
C12_CheckAuthOutcome ==
  /\ (req.stage = 1 /\ req.pc = "done") =>
       /\ req.res.ended /\ req.res.body = ""
       /\ ~Authorized(req.auth)
       /\ req.res.status = (IF Len(req.auth) < 2 THEN 203 ELSE 401)
  /\ req.stage > 1 => Authorized(req.auth)
  /\ \A a \in Auths :
       LET e == checkAuth(a)
       IN  /\ e.next <=> Authorized(a)
           /\ e.next <=> ~e.respond
           /\ e.respond => e.body = ""

\* C12 witness: a header with a scheme and a wrong token was answered 401 with
\* an empty body.
C12_Witness ==
  /\ req.stage = 1 /\ req.pc = "done"
  /\ Len(req.auth) = 2
  /\ req.auth[2] # Token
  /\ req.res.status = 401
  /\ req.res.body = ""

\* C13 as claimed: validateBody answers 400 NO_BODY without a body, 400
\* NO_PLAYER_ID when the body has no player_id, 400 PLAYER_ID_TYPE when
\* player_id is not a string (null included), and only a string player_id is
\* attached to the request and passed on to isValidPlayer.
C13_BodyOutcomes ==
  /\ (req.stage = 3 /\ req.pc = "done") =>
       /\ req.res.status = 400
       /\ Content(req.res.body).errcode =
            (IF IsNullish(req.body) THEN "NO_BODY"
             ELSE IF req.body.player_id = Undefined THEN "NO_PLAYER_ID"
             ELSE "PLAYER_ID_TYPE")
       /\ ~WellFormed(req.body)
  /\ req.stage = 4 =>
       /\ WellFormed(req.body)
       /\ req.player_id = req.body.player_id

\* C13 amended: validateBody answers 400 NO_BODY without a body, 400
\* NO_PLAYER_ID when the body's player_id is absent or null, 400
\* PLAYER_ID_TYPE when player_id is of another type that is not string, and
\* only a string player_id is attached to the request and passed on to
\* isValidPlayer.
C13_BodyOutcomesNullMissing ==
  /\ (req.stage = 3 /\ req.pc = "done") =>
       /\ req.res.status = 400
       /\ Content(req.res.body).errcode =
            (IF IsNullish(req.body) THEN "NO_BODY"
             ELSE IF req.body.player_id \in {Undefined, Null} THEN "NO_PLAYER_ID"
             ELSE "PLAYER_ID_TYPE")
       /\ ~WellFormed(req.body)
  /\ req.stage = 4 =>
       /\ WellFormed(req.body)
       /\ req.player_id = req.body.player_id

\* C13 witness: a body whose player_id is null was answered 400 NO_PLAYER_ID.
C13_Witness ==
  /\ req.stage = 3 /\ req.pc = "done"
  /\ req.body = Body(Null)
  /\ req.res.status = 400
  /\ Content(req.res.body).errcode = "NO_PLAYER_ID"

\* C18 as claimed: isTierThree is called only with a Discord id the link store
\* holds for the player; a request whose player has no link is answered
\* without a call to isTierThree.
C18_OracleOnlyWhenLinked ==
  /\ req.asked => req.discordID # null
  /\ (req.touched /\ req.discordID = null) =>
       (~req.asked /\ req.oracle = "none")

\* C19 as claimed: a request gets one response: a handler that has sent the
\* response runs no further statement (the missing-body case included), no
\* later handler runs, nothing responds a second time, and a request that is
\* done has its response.
C19_ExactlyOneResponse ==
  /\ req.pc = "done" => req.res.ended
  /\ ~req.res.again
  /\ ~(req.res.ended /\ req.threw)
  /\ (req.res.ended /\ req.stage < 4) => (~req.touched /\ ~req.asked)

=============================================================================
